---- MODULE Spec2Model ----
(***************************************************************************)
(* Token and session lifecycle of the REST scaffold:                       *)
(*   TokenService   (services/auth/token.service.ts, src/unnamed/part_002) *)
(*   SessionService (src/src/services/auth/session.service.ts)             *)
(*   authMiddleware (src/unnamed/part_012)                                 *)
(*   UserService    (src/src/api/v1/modules/user/user.service.ts)          *)
(*   redis client   (src/src/config/redis.ts)                              *)
(*                                                                         *)
(* Time is counted in ticks; TicksPerSec ticks make one second.  JWT iat   *)
(* and exp are whole seconds (Math.floor(Date.now() / 1000)), Date values  *)
(* and the store's key expiry are instants (ticks).                        *)
(***************************************************************************)
EXTENDS Integers, Sequences, FiniteSets, TLC

VARIABLES
    now,          \* the wall clock, in ticks
    config,       \* getConfig().security: the two JWT secrets
    redisClient,  \* redis.ts `redisClient`: "null" until start-up, then "ready",
                  \* and "closed" (null again) once shutdown has closed it
    storeUp,      \* FALSE: every command sent to the store rejects
    redis,        \* the keyspace of the store: key -> [val, expireAt]
    directory,    \* the users the database holds (UserRepository's backing store)
    nextSid,      \* number of uuidv4() session ids drawn so far
    issued,       \* every token string minted so far
    logins,       \* results returned by successful UserService.login calls
    uaCalls,      \* updateActivity calls suspended between read and write
    ra,           \* the revokeAllUserSessions call in flight (or idle)
    last,         \* outcome of the operation that completed last
    hist,         \* history: what has been revoked / deleted so far
    proc,         \* main.ts: the process, its `server`, handlers, timer and exit status
    breakers      \* CircuitBreakerManager.breakers: name -> breaker

vars == <<now, config, redisClient, storeUp, redis, directory, nextSid, issued, logins,
          uaCalls, ra, last, hist, proc, breakers>>

----
\* Bounds of the model

TicksPerSec == 2
MaxTime == 3
AccessExpirySecs == 1
RefreshExpirySecs == 1
MaxSessions == 2
MaxTokens == 2
MaxUpdateCalls == 1
MaxSignals == 2
MaxOverlap == 2
MaxFires == 3

\* SessionService.SESSION_TTL, in seconds (7 days in the source, scaled here)
SESSION_TTL == 1

Users == {"u1", "u2"}
Secrets == {"secretA", "secretB"}
Undefined == "undefined"

Sec(t) == t \div TicksPerSec

\* the user-lookup collaborator: the record a found user carries
EmailOf(u) == IF u = "u1" THEN "u1@x.com" ELSE "u2@x.com"
RolesOf(u) == IF u = "u1" THEN <<"admin">> ELSE <<"user">>

----
\* jsonwebtoken as the services use it

\* A token string is modelled by what it encodes: the payload fields, iat,
\* exp and the secret of its HMAC signature.  Equal payloads signed with the
\* same secret in the same second are the same string.
jwtSign(payload, secret, expiresIn, t) ==
    payload @@ [iat |-> Sec(t), exp |-> Sec(t) + expiresIn, sig |-> secret]

Garbage == [raw |-> "not-a-jwt"]

\* An expiry of the configuration ('15m', '1s') is a count and a unit.  ms()
\* is the `ms` package jsonwebtoken hands such a string to; timespan() is the
\* number of seconds jsonwebtoken adds to iat: Math.floor(iat + ms / 1000).
ms(expiry) ==
    expiry.n * (IF expiry.unit = "ms" THEN 1
                ELSE IF expiry.unit = "s" THEN 1000
                ELSE IF expiry.unit = "m" THEN 60 * 1000
                ELSE IF expiry.unit = "h" THEN 60 * 60 * 1000
                ELSE 24 * 60 * 60 * 1000)

timespan(expiry) == ms(expiry) \div 1000

\* JWT_ACCESS_EXPIRY: the default of envSchema, '15m', and the short ones the
\* model lets lapse
DefaultAccessExpiry == [n |-> 15, unit |-> "m"]
AccessExpiries ==
    {DefaultAccessExpiry, [n |-> AccessExpirySecs, unit |-> "s"],
     [n |-> AccessExpirySecs * 1000 + 500, unit |-> "ms"]}

\* JavaScript null (a missing key, an undecodable token)
Null == [null |-> TRUE]

\* a plain string value held by the store
Str(v) == [str |-> v]

Decodable(tok) == "sig" \in DOMAIN tok

\* jwt.decode: the payload without any check, null for an undecodable string
jwtDecode(tok) ==
    IF Decodable(tok) THEN [f \in DOMAIN tok \ {"sig"} |-> tok[f]] ELSE Null

\* a claim of a decoded payload, undefined when the payload lacks it
Claim(payload, f) == IF f \in DOMAIN payload THEN payload[f] ELSE Undefined

\* jwt.verify with the expiry test off by one: a token still verifies in the
\* second its exp names
jwtVerifies_Inclusive(tok, secret, t) ==
    /\ "sig" \in DOMAIN tok
    /\ tok.sig = secret
    /\ ("exp" \in DOMAIN tok => t \div TicksPerSec <= tok.exp)

\* jwt.verify succeeds: signature made with `secret`, and clock < exp
jwtVerifies(tok, secret, t) ==
    /\ Decodable(tok)
    /\ tok.sig = secret
    /\ ("exp" \in DOMAIN tok => Sec(t) < tok.exp)

----
\* Results of operations

Ok(v) == [kind |-> "ok", value |-> v]
AuthenticationError(msg) == [kind |-> "AuthenticationError", message |-> msg]
StoreError == [kind |-> "StoreError", message |-> "store command failed"]

----
\* The key-value store

\* getRedisClient() returns a client (it throws otherwise)
HasClient == redisClient = "ready"

StoreAvailable == HasClient /\ storeUp

\* keys, by prefix: `token:revoked:${token}` and `session:${sessionId}`
TokenKey(tok) == [revokedToken |-> tok]
SessionKey_Shared(sid) == [session |-> 1]
SessionKey(sid) == [session |-> sid]
IsSessionKey(k) == "session" \in DOMAIN k

\* redis.get: the value of a key that exists and has not expired, else null
redisGet(store, key, t) ==
    IF key \in DOMAIN store /\ t < store[key].expireAt THEN store[key].val ELSE Null

\* redis.setEx(key, ttl, val): the key expires ttl seconds after the write
redisSetEx(store, key, ttl, val, t) ==
    [k \in DOMAIN store \cup {key} |->
        IF k = key THEN [val |-> val, expireAt |-> t + ttl * TicksPerSec] ELSE store[k]]

\* del that removes nothing
redisDel_Noop(store, key) == store

\* redis.del
redisDel(store, key) == [k \in DOMAIN store \ {key} |-> store[k]]

\* a scan that stops after the first key it finds
redisSessionKeys_One(store, t) ==
    LET all == {k \in DOMAIN store : IsSessionKey(k) /\ t < store[k].expireAt}
    IN  IF all = {} THEN {} ELSE {CHOOSE k \in all : TRUE}

\* redis.keys('session:*')
redisSessionKeys(store, t) ==
    {k \in DOMAIN store : IsSessionKey(k) /\ t < store[k].expireAt}

\* server-side expiry: keys whose time has come are gone
Expire(store, t) == [k \in {x \in DOMAIN store : t < store[x].expireAt} |-> store[k]]

----
\* TokenService

\* generateAccessToken(userId, email, roles) at instant t
generateAccessToken(userId, email, roles, t) ==
    jwtSign([userId |-> userId, email |-> email, roles |-> roles],
            config.jwtAccessSecret, timespan(config.jwtAccessExpiry), t)

\* generateRefreshToken(userId) at instant t
generateRefreshToken(userId, t) ==
    jwtSign([userId |-> userId, type |-> "refresh"],
            config.jwtRefreshSecret, RefreshExpirySecs, t)

\* expiresIn taken from the configuration instead of from the token
expiresInOf_Configured(accessToken) == ms(config.jwtAccessExpiry)

\* expiresIn as both callers compute it from the decoded access token
expiresInOf(accessToken) ==
    LET decoded == jwtDecode(accessToken)
    IN  IF decoded.exp # 0 THEN (decoded.exp - decoded.iat) * 1000 ELSE 0

\* generateTokenPair(userId, email, roles) at instant t
generateTokenPair(userId, email, roles, t) ==
    LET accessToken == generateAccessToken(userId, email, roles, t)
    IN  [accessToken |-> accessToken,
         refreshToken |-> generateRefreshToken(userId, t),
         expiresIn |-> expiresInOf(accessToken)]

\* verifyToken that always verifies against the access secret
verifyToken_IgnoresSecret(tok, secret, t) ==
    IF jwtVerifies(tok, config.jwtAccessSecret, t)
    THEN Ok(jwtDecode(tok))
    ELSE AuthenticationError("Invalid or expired token")

\* verifyToken(token, secret?): a falsy secret means the access secret
verifyToken(tok, secret, t) ==
    LET key == IF secret \in {Undefined, ""} THEN config.jwtAccessSecret ELSE secret
    IN  IF jwtVerifies(tok, key, t)
        THEN Ok(jwtDecode(tok))
        ELSE AuthenticationError("Invalid or expired token")

\* isTokenRevoked that answers true when it cannot read the store
isTokenRevoked_FailClosed(tok, t) ==
    IF ~HasClient THEN TRUE
    ELSE IF ~storeUp THEN TRUE
    ELSE redisGet(redis, TokenKey(tok), t) = Str("1")

\* isTokenRevoked(token): a throwing getRedisClient or a rejected get
\* is caught and answered with false
isTokenRevoked(tok, t) ==
    IF ~HasClient THEN FALSE
    ELSE IF ~storeUp THEN FALSE
    ELSE redisGet(redis, TokenKey(tok), t) = Str("1")

\* the minted access token signed with the refresh secret
refreshedAccessToken_RefreshSecret(decoded, t) ==
    jwtSign([userId |-> decoded.userId], config.jwtRefreshSecret,
            timespan(config.jwtAccessExpiry), t)

\* the access token refreshAccessToken mints: only the userId claim
refreshedAccessToken(decoded, t) ==
    jwtSign([userId |-> decoded.userId], config.jwtAccessSecret,
            timespan(config.jwtAccessExpiry), t)

\* refreshAccessToken without the look-up in the denylist
refreshAccessToken_NoRevocationCheck(tok, t) ==
    IF ~jwtVerifies(tok, config.jwtRefreshSecret, t)
    THEN AuthenticationError("Failed to refresh token")
    ELSE IF Claim(jwtDecode(tok), "type") # "refresh"
    THEN AuthenticationError("Failed to refresh token")
    ELSE LET accessToken == refreshedAccessToken(jwtDecode(tok), t)
         IN  Ok([accessToken |-> accessToken, expiresIn |-> expiresInOf(accessToken)])

\* refreshAccessToken without the test of the type claim
refreshAccessToken_NoTypeCheck(tok, t) ==
    IF ~jwtVerifies(tok, config.jwtRefreshSecret, t)
    THEN AuthenticationError("Failed to refresh token")
    ELSE IF isTokenRevoked(tok, t)
    THEN AuthenticationError("Failed to refresh token")
    ELSE LET accessToken == refreshedAccessToken(jwtDecode(tok), t)
         IN  Ok([accessToken |-> accessToken, expiresIn |-> expiresInOf(accessToken)])

\* refreshAccessToken without its catch: each cause keeps its own error
refreshAccessToken_NoCatch(tok, t) ==
    IF ~jwtVerifies(tok, config.jwtRefreshSecret, t)
    THEN [kind |-> "JsonWebTokenError", message |-> "jwt verification failed"]
    ELSE IF Claim(jwtDecode(tok), "type") # "refresh"
    THEN AuthenticationError("Invalid token type")
    ELSE IF isTokenRevoked(tok, t)
    THEN AuthenticationError("Token has been revoked")
    ELSE LET accessToken == refreshedAccessToken(jwtDecode(tok), t)
         IN  Ok([accessToken |-> accessToken, expiresIn |-> expiresInOf(accessToken)])

\* refreshAccessToken(refreshToken) at instant t; every throw inside the
\* try block is rethrown as AuthenticationError('Failed to refresh token')
refreshAccessToken(tok, t) ==
    IF ~jwtVerifies(tok, config.jwtRefreshSecret, t)
    THEN AuthenticationError("Failed to refresh token")
    ELSE IF Claim(jwtDecode(tok), "type") # "refresh"
    THEN AuthenticationError("Failed to refresh token")
    ELSE IF isTokenRevoked(tok, t)
    THEN AuthenticationError("Failed to refresh token")
    ELSE LET accessToken == refreshedAccessToken(jwtDecode(tok), t)
         IN  Ok([accessToken |-> accessToken, expiresIn |-> expiresInOf(accessToken)])

\* the ttl one second too long
revokeTtl_Late(decoded, t) == decoded.exp - Sec(t) + 1

\* the ttl revokeToken computes: exp - Math.floor(Date.now() / 1000)
revokeTtl(decoded, t) == decoded.exp - Sec(t)

\* revokeToken without the `ttl > 0` test: an expired token is written too
revokeToken_NoTtlGuard(tok, t) ==
    LET decoded == jwtDecode(tok)
    IN  IF decoded = Null \/ "exp" \notin DOMAIN decoded THEN redis
        ELSE IF ~HasClient THEN redis
        ELSE IF storeUp
             THEN redisSetEx(redis, TokenKey(tok), revokeTtl(decoded, t), Str("1"), t)
             ELSE redis

\* revokeToken(token): the keyspace after the call.  Nothing is written for
\* an undecodable token, a token without exp, ttl <= 0, a missing client or
\* a rejected write; no error leaves the function.
revokeToken(tok, t) ==
    LET decoded == jwtDecode(tok)
    IN  IF decoded = Null \/ "exp" \notin DOMAIN decoded THEN redis
        ELSE IF ~HasClient THEN redis
        ELSE IF revokeTtl(decoded, t) > 0 /\ storeUp
             THEN redisSetEx(redis, TokenKey(tok), revokeTtl(decoded, t), Str("1"), t)
             ELSE redis

\* revokeToken without its try/catch: the errors reach the caller
revokeTokenResult_NoCatch(tok, t) ==
    LET decoded == jwtDecode(tok)
    IN  IF decoded = Null \/ "exp" \notin DOMAIN decoded THEN Ok(Undefined)
        ELSE IF ~HasClient THEN [kind |-> "Error", message |-> "Redis client not initialized"]
        ELSE IF revokeTtl(decoded, t) > 0 /\ ~storeUp THEN StoreError
        ELSE Ok(Undefined)

\* revokeToken(token): what the caller gets.  The early return, the
\* completed write and the skipped write return undefined; a throwing
\* getRedisClient and a rejected setEx are caught and logged, and the function
\* returns undefined as well.
revokeTokenResult(tok, t) ==
    LET decoded == jwtDecode(tok)
    IN  IF decoded = Null \/ "exp" \notin DOMAIN decoded THEN Ok(Undefined)
        ELSE IF ~HasClient THEN Ok(Undefined)
        ELSE IF revokeTtl(decoded, t) > 0 /\ ~storeUp THEN Ok(Undefined)
        ELSE Ok(Undefined)

----
\* authMiddleware(req): req.user, or `new AuthenticationError()` (the default
\* message of the class) through next()
NoHeader == [header |-> "none"]

authMiddleware(tok, t) ==
    IF tok = NoHeader
    THEN AuthenticationError(Undefined)
    ELSE IF jwtVerifies(tok, config.jwtAccessSecret, t)
         THEN Ok([id |-> Claim(jwtDecode(tok), "userId"),
                  email |-> Claim(jwtDecode(tok), "email"),
                  roles |-> Claim(jwtDecode(tok), "roles"),
                  permissions |-> <<>>])
         ELSE AuthenticationError(Undefined)

----
\* UserPolicy and the policy check at the head of each UserController handler

ADMIN == "admin"
RoleNames == {"admin", "user"}

\* what evaluating `user.roles.includes(...)` throws when roles is undefined
TypeError ==
    [kind |-> "TypeError",
     message |-> "Cannot read properties of undefined (reading 'includes')"]

AuthorizationError(msg) == [kind |-> "AuthorizationError", message |-> msg]

\* roles is an array (it is undefined when the token carries no roles claim)
IsArray(roles) == roles \in Seq(RoleNames)

\* roles.includes(role) on an array
includes(roles, role) == \E i \in DOMAIN roles : roles[i] = role

\* canViewUser, canUpdateUser and canDeleteUser have one and the same body:
\* the admin test first, then the comparison of the ids.  The outcome is
\* Ok(boolean) or the error the evaluation throws; a request without req.user
\* has user = Null.
canViewUser(user, targetUserId) ==
    IF user = Null THEN Ok(FALSE)
    ELSE IF ~IsArray(user.roles) THEN TypeError
    ELSE IF includes(user.roles, ADMIN) THEN Ok(TRUE)
    ELSE Ok(user.id = targetUserId)

canUpdateUser(user, targetUserId) == canViewUser(user, targetUserId)

canDeleteUser(user, targetUserId) == canViewUser(user, targetUserId)

canListUsers(user) ==
    IF user = Null THEN Ok(FALSE)
    ELSE IF ~IsArray(user.roles) THEN TypeError
    ELSE Ok(includes(user.roles, ADMIN))

\* canChangePassword compares the ids first
canChangePassword(user, targetUserId) ==
    IF user = Null THEN Ok(FALSE)
    ELSE IF user.id = targetUserId THEN Ok(TRUE)
    ELSE IF ~IsArray(user.roles) THEN TypeError
    ELSE Ok(includes(user.roles, ADMIN))

Endpoints == {"getUser", "updateUser", "deleteUser", "listUsers", "changePassword"}

\* the policy check of a handler of UserController for req.user = user and
\* req.params.id = targetUserId: the handler goes on to the service
\* (Ok("allowed")), throws AuthorizationError, or rejects with what the
\* policy threw; asyncHandler hands either error to next()
UserController(endpoint, user, targetUserId) ==
    LET allowed == IF endpoint = "getUser" THEN canViewUser(user, targetUserId)
                   ELSE IF endpoint = "updateUser" THEN canUpdateUser(user, targetUserId)
                   ELSE IF endpoint = "deleteUser" THEN canDeleteUser(user, targetUserId)
                   ELSE IF endpoint = "listUsers" THEN canListUsers(user)
                   ELSE canChangePassword(user, targetUserId)
    IN  IF allowed.kind # "ok" THEN allowed
        ELSE IF allowed.value THEN Ok("allowed")
        ELSE AuthorizationError(Undefined)

----
\* SessionService

Date(t) == [date |-> t]

\* the Session object createSession builds and returns
newSession(sessionId, userId, ipAddress, userAgent, t) ==
    [id |-> sessionId, userId |-> userId,
     createdAt |-> Date(t), expiresAt |-> Date(t + SESSION_TTL * TicksPerSec),
     lastActivityAt |-> Date(t), ipAddress |-> ipAddress, userAgent |-> userAgent]

\* JSON.stringify(session): a Date becomes its ISO string, an undefined
\* property is left out
DateFields == {"createdAt", "expiresAt", "lastActivityAt"}
OptionalFields == {"ipAddress", "userAgent"}

JSONstringify(session) ==
    [f \in {g \in DOMAIN session : g \in OptionalFields => session[g] # Undefined} |->
        IF f \in DateFields /\ "date" \in DOMAIN session[f]
        THEN [iso |-> session[f].date]
        ELSE session[f]]

\* JSON.parse(data) as Session: the ISO strings stay strings
JSONparse(data) == data

\* getSession(sessionId) when the store answers
getSession(sessionId, t) ==
    LET data == redisGet(redis, SessionKey(sessionId), t)
    IN  IF data = Null THEN Null ELSE JSONparse(data)

\* updateActivity that writes the record back as it read it
touched_Stale(session, t) == session

\* a write-back that stamps createdAt as well
touched_Restamped(session, t) ==
    [session EXCEPT !.lastActivityAt = Date(t), !.createdAt = Date(t)]

\* the record updateActivity writes back: the session it read earlier with
\* lastActivityAt replaced by new Date()
touched(session, t) == [session EXCEPT !.lastActivityAt = Date(t)]

\* the test without the comparison of the userId
belongsTo_Anyone(data, userId) == data # Null

\* the test both scans apply to the value of a key: it is there and its
\* userId is the one asked for
belongsTo(data, userId) == data # Null /\ JSONparse(data).userId = userId

\* getUserSessions(userId) over a keyspace, when nothing interleaves
userSessionsIn(store, userId, t) ==
    {JSONparse(redisGet(store, k, t)) :
        k \in {x \in redisSessionKeys(store, t) : belongsTo(redisGet(store, x, t), userId)}}

getUserSessions(userId, t) == userSessionsIn(redis, userId, t)

----
\* FeatureFlagService (src/unnamed/part_009).  The flags live in the same
\* store, under keys of the prefix 'ff:'.

\* FeatureFlagService.CACHE_TTL, in seconds (300 in the source, scaled here)
CACHE_TTL == 1

\* a key written by redis.set has no expiry: it outlives the clock
Forever == MaxTime + 1

\* redis.set(key, val)
redisSet(store, key, val) ==
    [k \in DOMAIN store \cup {key} |->
        IF k = key THEN [val |-> val, expireAt |-> Forever] ELSE store[k]]

FlagNames == {"beta"}
FlagUsers == {"u1"}
FlagEnvironments == {"production"}

\* a FeatureFlagContext: undefined (Null), or a record that may carry a
\* userId and an environment
Contexts ==
    {Null} \cup {[userId |-> u] : u \in FlagUsers}
           \cup {[environment |-> e] : e \in FlagEnvironments}
           \cup {[userId |-> u, environment |-> e] : u \in FlagUsers, e \in FlagEnvironments}

\* context?.userId / context?.environment is there
HasUserId(context) == "userId" \in DOMAIN context
HasEnvironment(context) == "environment" \in DOMAIN context

\* `ff:${flagName}`, `ff:user:${userId}:${flagName}`, `ff:env:${environment}:${flagName}`
\* (a key of the prefix 'ff:' is the kind of key, the flag and the id in it)
FlagKey(kind, flagName, id) == [ff |-> kind, name |-> flagName, id |-> id]
GlobalFlagKey(flagName) == FlagKey("global", flagName, "")
UserFlagKey(flagName, userId) == FlagKey("user", flagName, userId)
EnvFlagKey(flagName, environment) == FlagKey("env", flagName, environment)

\* buildCacheKey: `ff:cache:${flagName}:user:${userId}`, else
\* `ff:cache:${flagName}:env:${environment}`, else `ff:cache:${flagName}`
buildCacheKey(flagName, context) ==
    IF HasUserId(context) THEN FlagKey("cache:user", flagName, context.userId)
    ELSE IF HasEnvironment(context) THEN FlagKey("cache:env", flagName, context.environment)
    ELSE FlagKey("cache", flagName, "")

\* the keys the pattern `ff:cache:${flagName}:*` of invalidateCache matches:
\* the pattern ends in ':' followed by anything, so the key of the evaluation
\* without context, `ff:cache:${flagName}`, is not among them
MatchesInvalidatePattern(key, flagName) ==
    /\ "ff" \in DOMAIN key
    /\ key.ff \in {"cache:user", "cache:env"}
    /\ key.name = flagName

\* invalidateCache(flagName): keys(pattern), then del of what it returned
invalidateCache(store, flagName, t) ==
    [k \in {x \in DOMAIN store : ~(MatchesInvalidatePattern(x, flagName) /\ t < store[x].expireAt)}
        |-> store[k]]

\* String(isEnabled)
BoolStr(b) == IF b THEN Str("true") ELSE Str("false")

\* the evaluation once the cache has missed and a flag value `flag` was
\* found: the value is cached under cacheKey and returned
Evaluated(store, cacheKey, flag, t) ==
    [redis |-> redisSetEx(store, cacheKey, CACHE_TTL, BoolStr(flag = Str("true")), t),
     res |-> flag = Str("true")]

\* isEnabled that looks at the user flag before the global flag
isEnabled_UserFirst(flagName, context, t) ==
    LET cacheKey == buildCacheKey(flagName, context)
        cached == redisGet(redis, cacheKey, t)
        globalFlag == redisGet(redis, GlobalFlagKey(flagName), t)
        userFlag == IF HasUserId(context)
                    THEN redisGet(redis, UserFlagKey(flagName, context.userId), t)
                    ELSE Null
        envFlag == IF HasEnvironment(context)
                   THEN redisGet(redis, EnvFlagKey(flagName, context.environment), t)
                   ELSE Null
    IN  IF ~StoreAvailable THEN [redis |-> redis, res |-> FALSE]
        ELSE IF cached # Null THEN [redis |-> redis, res |-> cached = Str("true")]
        ELSE IF userFlag # Null THEN Evaluated(redis, cacheKey, userFlag, t)
        ELSE IF globalFlag # Null THEN Evaluated(redis, cacheKey, globalFlag, t)
        ELSE IF envFlag # Null THEN Evaluated(redis, cacheKey, envFlag, t)
        ELSE [redis |-> redis, res |-> FALSE]

\* isEnabled(flagName, context) at instant t: the keyspace after the call and
\* the boolean it returns.  Every error inside is caught and answered false.
isEnabled(flagName, context, t) ==
    LET cacheKey == buildCacheKey(flagName, context)
        cached == redisGet(redis, cacheKey, t)
        globalFlag == redisGet(redis, GlobalFlagKey(flagName), t)
        userFlag == IF HasUserId(context)
                    THEN redisGet(redis, UserFlagKey(flagName, context.userId), t)
                    ELSE Null
        envFlag == IF HasEnvironment(context)
                   THEN redisGet(redis, EnvFlagKey(flagName, context.environment), t)
                   ELSE Null
    IN  IF ~StoreAvailable THEN [redis |-> redis, res |-> FALSE]
        ELSE IF cached # Null THEN [redis |-> redis, res |-> cached = Str("true")]
        ELSE IF globalFlag # Null THEN Evaluated(redis, cacheKey, globalFlag, t)
        ELSE IF userFlag # Null THEN Evaluated(redis, cacheKey, userFlag, t)
        ELSE IF envFlag # Null THEN Evaluated(redis, cacheKey, envFlag, t)
        ELSE [redis |-> redis, res |-> FALSE]

----
\* The process (main.ts) and the circuit breaker registry

\* the signals setupErrorHandlers listens to
Signals == {"SIGTERM", "SIGINT", "SIGHUP"}

\* config.env.DATABASE_TYPE
DatabaseTypes == {"mongodb", "postgres"}

\* the delay of the forced shutdown, setTimeout(..., 30000), scaled to seconds
FORCE_SHUTDOWN_TIMEOUT == 1

\* no forced-shutdown timer is armed, no signal was received yet
Never == -1

\* the process when start() is called: nothing is configured, `server` is
\* undefined, no listener is registered, no timer is armed
NewProcess ==
    [phase        |-> "new",          \* how far start() has come
     databaseType |-> "unset",
     handlers     |-> FALSE,          \* setupErrorHandlers has run
     database     |-> "disconnected",
     mongoSigint  |-> FALSE,          \* initializeMongoDB's SIGINT listener is registered
     mongoClosing |-> FALSE,          \* that listener awaits mongoose.connection.close()
     server       |-> "undefined",
     cleanup      |-> FALSE,          \* the callback of server.close is running
     timer        |-> Never,          \* the instant the earliest forced shutdown is due
     signals      |-> 0,
     signalAt     |-> Never,          \* the instant the first signal was received
     status       |-> "running"]

\* new Map(): no breaker is registered
NoBreakers == [n \in {} |-> Null]

----
\* Initial state: the module-level redisClient is null until initializeRedis
\* runs; nothing is stored, nothing has been issued.  The two secrets come
\* from the environment; envSchema only asks each to be 32 characters long,
\* so they may be equal.

NoCall == [op |-> "none", arg |-> Undefined, res |-> Ok(Undefined)]
Idle == [pc |-> "idle"]

Init ==
    /\ now = 0
    /\ config \in {[jwtAccessSecret |-> "secretA", jwtRefreshSecret |-> r,
                     jwtAccessExpiry |-> e] : r \in Secrets, e \in AccessExpiries}
    /\ redisClient = "null"
    /\ storeUp = TRUE
    /\ redis = [k \in {} |-> Null]
    /\ directory = Users
    /\ nextSid = 0
    /\ issued = {}
    /\ logins = {}
    /\ uaCalls = {}
    /\ ra = Idle
    /\ last = NoCall
    /\ hist = [revoked |-> {}, deadSessions |-> {},
               revokedSessions |-> {}, deletedRefresh |-> {}]
    /\ proc = NewProcess
    /\ breakers = NoBreakers

\* the sessions that were created by a login
LoginSessions == {l.sessionId : l \in logins}

Done(op, arg, res) == last' = [op |-> op, arg |-> arg, res |-> res]

\* session ids whose key is gone in store s2 but was there in s1
Gone(s1, s2) == {k.session : k \in {x \in DOMAIN s1 \ DOMAIN s2 : IsSessionKey(x)}}

----
\* Environment: the clock, the store, the client lifecycle

Tick ==
    /\ now < MaxTime
    /\ now' = now + 1
    /\ redis' = Expire(redis, now + 1)
    /\ hist' = [hist EXCEPT !.deadSessions = @ \cup Gone(redis, Expire(redis, now + 1))]
    /\ UNCHANGED <<config, proc, breakers, redisClient, storeUp, nextSid, issued, logins, uaCalls, ra, last, directory>>

\* initializeRedis: createClient, connect, ping; start() runs it once
initializeRedis ==
    /\ redisClient = "null"
    /\ redisClient' = "ready"
    /\ UNCHANGED <<now, config, proc, breakers, storeUp, redis, nextSid, issued, logins, uaCalls, ra, last, hist, directory>>

\* closeRedis: quit and forget the client; gracefulShutdown runs it
closeRedis ==
    /\ redisClient = "ready"
    /\ redisClient' = "closed"
    /\ UNCHANGED <<now, config, proc, breakers, storeUp, redis, nextSid, issued, logins, uaCalls, ra, last, hist, directory>>

\* the connection to the store breaks or comes back
StoreFlip ==
    /\ storeUp' = ~storeUp
    /\ UNCHANGED <<now, config, proc, breakers, redisClient, redis, nextSid, issued, logins, uaCalls, ra, last, hist, directory>>

----
\* Token operations

\* a well-formed token that carries no exp claim (signed without expiresIn)
NoExpToken == [userId |-> "u1", iat |-> 0, sig |-> "secretA"]

Inputs == issued \cup {Garbage, NoExpToken}

\* the caller keeps the tokens it was handed while it has room for them
Mint(toks) ==
    issued' = IF Cardinality(issued \cup toks) <= MaxTokens THEN issued \cup toks ELSE issued

GenerateTokenPair(userId, email, roles) ==
    LET pair == generateTokenPair(userId, email, roles, now)
    IN  /\ Mint({pair.accessToken, pair.refreshToken})
        /\ Done("generateTokenPair", [userId |-> userId, email |-> email, roles |-> roles], Ok(pair))
        /\ UNCHANGED <<now, config, proc, breakers, redisClient, storeUp, redis, nextSid, logins, uaCalls, ra, hist, directory>>

VerifyToken(tok, secret) ==
    /\ Done("verifyToken", [token |-> tok, secret |-> secret], verifyToken(tok, secret, now))
    /\ UNCHANGED <<now, config, proc, breakers, redisClient, storeUp, redis, nextSid, issued, logins, uaCalls, ra, hist, directory>>

AuthMiddleware(tok) ==
    /\ Done("authMiddleware", tok, authMiddleware(tok, now))
    /\ UNCHANGED <<now, config, proc, breakers, redisClient, storeUp, redis, nextSid, issued, logins, uaCalls, ra, hist, directory>>

RefreshAccessToken(tok) ==
    LET res == refreshAccessToken(tok, now)
    IN  /\ IF res.kind = "ok" THEN Mint({res.value.accessToken}) ELSE UNCHANGED issued
        /\ Done("refreshAccessToken", tok, res)
        /\ UNCHANGED <<now, config, proc, breakers, redisClient, storeUp, redis, nextSid, logins, uaCalls, ra, hist, directory>>

RevokeToken(tok) ==
    LET unexpired == Decodable(tok) /\ "exp" \in DOMAIN tok /\ Sec(now) < tok.exp
    IN  /\ redis' = revokeToken(tok, now)
        /\ Done("revokeToken", tok, revokeTokenResult(tok, now))
        /\ hist' = [hist EXCEPT
                !.revoked = IF unexpired /\ StoreAvailable THEN @ \cup {tok} ELSE @]
        /\ UNCHANGED <<now, config, proc, breakers, redisClient, storeUp, nextSid, issued, logins, uaCalls, ra, directory>>

IsTokenRevoked(tok) ==
    /\ Done("isTokenRevoked", tok, Ok(isTokenRevoked(tok, now)))
    /\ UNCHANGED <<now, config, proc, breakers, redisClient, storeUp, redis, nextSid, issued, logins, uaCalls, ra, hist, directory>>

----
\* Session operations

\* what a store command does to its caller when the store cannot serve it:
\* getRedisClient throws without a client, a command on a broken
\* connection rejects
ClientError == [kind |-> "Error", message |-> "Redis client not initialized"]
Unavailable == IF ~HasClient THEN ClientError ELSE StoreError

SessionIds == 1..MaxSessions
Clients == {[ip |-> "10.0.0.1", agent |-> Undefined]}

\* UserService.login.  `found` is what the database query behind
\* UserRepository.findByEmail returns (a user of the directory, or null, the
\* only answer of the stub) and `passwordValid` what
\* EncryptionService.comparePassword returns.
Login(found, passwordValid, client) ==
    LET sid == nextSid + 1
        session == newSession(sid, found, client.ip, client.agent, now)
        tokens == generateTokenPair(found, EmailOf(found), RolesOf(found), now)
    IN  IF found = Undefined \/ ~passwordValid
        THEN /\ Done("login", found, AuthenticationError("Invalid email or password"))
             /\ UNCHANGED <<now, config, proc, breakers, redisClient, storeUp, redis, nextSid, issued,
                            logins, uaCalls, ra, hist, directory>>
        ELSE IF ~StoreAvailable
        THEN /\ Done("login", found, Unavailable)
             /\ UNCHANGED <<now, config, proc, breakers, redisClient, storeUp, redis, nextSid, issued,
                            logins, uaCalls, ra, hist, directory>>
        ELSE /\ nextSid < MaxSessions
             /\ nextSid' = sid
             /\ redis' = redisSetEx(redis, SessionKey(sid), SESSION_TTL, JSONstringify(session), now)
             /\ issued' = issued \cup {tokens.accessToken, tokens.refreshToken}
             /\ logins' = logins \cup {[sessionId |-> sid, userId |-> found, tokens |-> tokens]}
             /\ Done("login", found, Ok([tokens |-> tokens, sessionId |-> sid]))
             /\ UNCHANGED <<now, config, proc, breakers, redisClient, storeUp, uaCalls, ra, hist, directory>>

\* SessionService.createSession called on its own
CreateSession(userId, client) ==
    LET sid == nextSid + 1
        session == newSession(sid, userId, client.ip, client.agent, now)
    IN  IF ~StoreAvailable
        THEN /\ Done("createSession", userId, Unavailable)
             /\ UNCHANGED <<now, config, proc, breakers, redisClient, storeUp, redis, nextSid, issued,
                            logins, uaCalls, ra, hist, directory>>
        ELSE /\ nextSid < MaxSessions
             /\ nextSid' = sid
             /\ redis' = redisSetEx(redis, SessionKey(sid), SESSION_TTL, JSONstringify(session), now)
             /\ Done("createSession", userId, Ok(session))
             /\ UNCHANGED <<now, config, proc, breakers, redisClient, storeUp, issued, logins, uaCalls, ra, hist, directory>>

\* getSession with a catch that answers null
getSessionResult_Swallowed(sid, t) ==
    IF StoreAvailable THEN Ok(getSession(sid, t)) ELSE Ok(Null)

\* getSession(sessionId): what the caller gets; it has no try/catch, a
\* throwing getRedisClient or a rejected get reaches the caller as it is
getSessionResult(sid, t) ==
    IF StoreAvailable THEN Ok(getSession(sid, t)) ELSE Unavailable

GetSession(sid) ==
    /\ Done("getSession", sid, getSessionResult(sid, now))
    /\ UNCHANGED <<now, config, proc, breakers, redisClient, storeUp, redis, nextSid, issued, logins, uaCalls, ra, hist, directory>>

GetUserSessions(userId) ==
    /\ Done("getUserSessions", userId,
            IF StoreAvailable THEN Ok(getUserSessions(userId, now)) ELSE Unavailable)
    /\ UNCHANGED <<now, config, proc, breakers, redisClient, storeUp, redis, nextSid, issued, logins, uaCalls, ra, hist, directory>>

\* updateActivity up to its second await: getRedisClient, `await
\* this.getSession`, and on resumption lastActivityAt = new Date() and the
\* setEx command sent.  An absent session ends the call; otherwise the call
\* is suspended with the record it is writing until the store executes the
\* setEx.
\* `overlapped` is history: another call on the same session was suspended
\* while this one was.  At most `limit` calls are suspended at a time.
UpdateActivityStart(sid, limit) ==
    /\ Cardinality(uaCalls) < limit
    /\ IF ~StoreAvailable
       THEN Done("updateActivity", sid, Unavailable) /\ UNCHANGED uaCalls
       ELSE IF getSession(sid, now) = Null
       THEN Done("updateActivity", sid, Ok(Undefined)) /\ UNCHANGED uaCalls
       ELSE /\ uaCalls' = {[c EXCEPT !.overlapped = @ \/ c.sid = sid] : c \in uaCalls}
                              \cup {[sid |-> sid, session |-> touched(getSession(sid, now), now),
                                     overlapped |-> \E c \in uaCalls : c.sid = sid]}
            /\ UNCHANGED last
    /\ UNCHANGED <<now, config, proc, breakers, redisClient, storeUp, redis, nextSid, issued, logins, ra, hist, directory>>

UpdateActivityRead(sid) == UpdateActivityStart(sid, MaxUpdateCalls)

\* updateActivity, the rest: the store executes the setEx of the whole
\* record with a fresh SESSION_TTL and the call returns
UpdateActivityWrite(call) ==
    /\ call \in uaCalls
    /\ uaCalls' = uaCalls \ {call}
    /\ IF ~StoreAvailable
       THEN Done("updateActivity", call.sid, Unavailable) /\ UNCHANGED <<redis, ra>>
       ELSE /\ redis' = redisSetEx(redis, SessionKey(call.sid), SESSION_TTL,
                                   JSONstringify(call.session), now)
            /\ ra' = IF ra.pc \in {"get", "del"}
                     THEN [ra EXCEPT !.rewritten = @ \cup {call.sid}]
                     ELSE ra
            /\ Done("updateActivity", call.sid, Ok(Undefined))
    /\ UNCHANGED <<now, config, proc, breakers, redisClient, storeUp, nextSid, issued, logins, hist, directory>>

\* revokeSession(sessionId) on keyspace `store`: the keyspace after the call
\* and what the call returns or throws (the del of the session key; a key that
\* is not there is no error)
revokeSession(store, sid) ==
    IF ~StoreAvailable
    THEN [redis |-> store, res |-> Unavailable]
    ELSE [redis |-> redisDel(store, SessionKey(sid)), res |-> Ok(Undefined)]

RevokeSession(sid) ==
    IF ~StoreAvailable
    THEN /\ Done("revokeSession", sid, revokeSession(redis, sid).res)
         /\ UNCHANGED <<now, config, proc, breakers, redisClient, storeUp, redis, nextSid, issued, logins,
                        uaCalls, ra, hist, directory>>
    ELSE /\ redis' = revokeSession(redis, sid).redis
         /\ Done("revokeSession", sid, revokeSession(redis, sid).res)
         /\ hist' = [hist EXCEPT
                 !.deadSessions = @ \cup Gone(redis, redisDel(redis, SessionKey(sid))),
                 !.revokedSessions = @ \cup ({sid} \cap LoginSessions)]
         /\ UNCHANGED <<now, config, proc, breakers, redisClient, storeUp, nextSid, issued, logins, uaCalls, ra, directory>>

----
\* revokeAllUserSessions and UserService.deleteUser.  One call is followed
\* through its awaits: keys('session:*'), then for each key a get and, when
\* the stored userId matches, a del; the caller resumes after the last one.

\* keys('session:*'): the call as it stands once the scan has answered
Scanned(userId, caller) ==
    [pc |-> "get", userId |-> userId, caller |-> caller,
     keys |-> redisSessionKeys(redis, now), key |-> Null, deleted |-> {},
     drawn |-> nextSid,   \* history: the session ids that existed at the scan
     rewritten |-> {}]    \* history: sessions an updateActivity wrote since the scan

\* the call fails: the rejected command propagates to the caller
RAFail ==
    /\ ra' = Idle
    /\ Done(ra.caller, ra.userId, Unavailable)

RevokeAllUserSessions(userId) ==
    /\ ra = Idle
    /\ IF ~StoreAvailable
       THEN Done("revokeAllUserSessions", userId, Unavailable) /\ UNCHANGED ra
       ELSE ra' = Scanned(userId, "revokeAllUserSessions") /\ UNCHANGED last
    /\ UNCHANGED <<now, config, proc, breakers, redisClient, storeUp, redis, nextSid, issued, logins, uaCalls, hist, directory>>

\* UserService.deleteUser: UserRepository.delete (del of the profile cache
\* key), then revokeAllUserSessions
ProfileKey(userId) == [userProfile |-> userId]

DeleteUser(userId) ==
    /\ ra = Idle
    /\ IF ~StoreAvailable
       THEN /\ Done("deleteUser", userId, Unavailable)
            /\ UNCHANGED <<ra, redis, directory>>
       ELSE /\ redis' = redisDel(redis, ProfileKey(userId))
            /\ directory' = directory \ {userId}
            /\ ra' = [pc |-> "scan", userId |-> userId, caller |-> "deleteUser"]
            /\ UNCHANGED last
    /\ UNCHANGED <<now, config, proc, breakers, redisClient, storeUp, nextSid, issued, logins, uaCalls, hist>>

RevokeAllScan ==
    /\ ra.pc = "scan"
    /\ IF ~StoreAvailable
       THEN RAFail
       ELSE ra' = Scanned(ra.userId, ra.caller) /\ UNCHANGED last
    /\ UNCHANGED <<now, config, proc, breakers, redisClient, storeUp, redis, nextSid, issued, logins, uaCalls, hist, directory>>

\* `await redis.get(key)` for the next key of the scan (keys() promises no
\* order)
RevokeAllGet ==
    /\ ra.pc = "get"
    /\ ra.keys # {}
    /\ IF ~StoreAvailable
       THEN RAFail
       ELSE \E k \in ra.keys :
            LET data == redisGet(redis, k, now)
            IN  /\ ra' = IF belongsTo(data, ra.userId)
                         THEN [ra EXCEPT !.pc = "del", !.key = k]
                         ELSE [ra EXCEPT !.keys = @ \ {k}]
                /\ UNCHANGED last
    /\ UNCHANGED <<now, config, proc, breakers, redisClient, storeUp, redis, nextSid, issued, logins, uaCalls, hist, directory>>

\* `await redis.del(key)` for the key just read
RevokeAllDel ==
    /\ ra.pc = "del"
    /\ IF ~StoreAvailable
       THEN RAFail /\ UNCHANGED <<hist, redis, directory>>
       ELSE /\ redis' = redisDel(redis, ra.key)
            /\ ra' = [ra EXCEPT !.pc = "get", !.key = Null, !.keys = @ \ {ra.key},
                                 !.deleted = @ \cup {ra.key.session}]
            /\ hist' = [hist EXCEPT !.deadSessions = @ \cup Gone(redis, redisDel(redis, ra.key))]
            /\ UNCHANGED last
    /\ UNCHANGED <<now, config, proc, breakers, redisClient, storeUp, nextSid, issued, logins, uaCalls, directory>>

\* the loop is over: the call returns to its caller
RevokeAllReturn ==
    /\ ra.pc = "get"
    /\ ra.keys = {}
    /\ ra' = Idle
    /\ Done(ra.caller, ra.userId, Ok(Undefined))
    /\ hist' = [hist EXCEPT
            !.revokedSessions = @ \cup (ra.deleted \cap LoginSessions),
            !.deletedRefresh = IF ra.caller = "deleteUser"
                               THEN @ \cup {tok \in issued : Claim(tok, "type") = "refresh"
                                                             /\ tok.userId = ra.userId}
                               ELSE @]
    /\ UNCHANGED <<now, config, proc, breakers, redisClient, storeUp, redis, nextSid, issued, logins, uaCalls, directory>>

----
\* (userId, email, roles) triples handed to generateTokenPair
Profiles == {<<"u1", "u1@x.com", <<"admin">>>>, <<"u2", "u2@x.com", <<"user">>>>,
             <<"u2", "u1@x.com", <<"user", "admin">>>>}

\* the client lifecycle and the failures of the store
Environment ==
    \/ Tick
    \/ initializeRedis
    \/ closeRedis
    \/ StoreFlip

\* TokenService and authMiddleware called with every token in circulation
TokenNext ==
    \/ Environment
    \/ \E p \in Profiles : GenerateTokenPair(p[1], p[2], p[3])
    \/ \E tok \in Inputs, s \in Secrets \cup {Undefined} : VerifyToken(tok, s)
    \/ \E tok \in Inputs \cup {NoHeader} : AuthMiddleware(tok)
    \/ \E tok \in Inputs : RefreshAccessToken(tok)
    \/ \E tok \in Inputs : RevokeToken(tok)
    \/ \E tok \in Inputs : IsTokenRevoked(tok)

TokenSpec == Init /\ [][TokenNext]_vars

\* the specifications below fix the secrets to two distinct values and the
\* access expiry to the one of whole seconds that lapses within MaxTime
InitDistinct ==
    /\ Init
    /\ config.jwtAccessSecret # config.jwtRefreshSecret
    /\ config.jwtAccessExpiry = [n |-> AccessExpirySecs, unit |-> "s"]

\* the calls of SessionService that start and finish at once
SessionCalls ==
    \/ \E u \in Users, c \in Clients : CreateSession(u, c)
    \/ \E sid \in SessionIds : RevokeSession(sid)

\* the steps of the calls that are suspended at an await
SessionSteps ==
    \/ \E call \in uaCalls : UpdateActivityWrite(call)
    \/ RevokeAllGet
    \/ RevokeAllDel
    \/ RevokeAllReturn

\* SessionService under interleaved calls
SessionNext ==
    \/ Tick
    \/ initializeRedis
    \/ closeRedis
    \/ SessionCalls
    \/ \E sid \in SessionIds : UpdateActivityRead(sid)
    \/ \E u \in Users : RevokeAllUserSessions(u)
    \/ SessionSteps

SessionSpec == InitDistinct /\ [][SessionNext]_vars

\* SessionService with one call at a time: a call starts only when no other
\* call is suspended
Quiet == ra = Idle /\ uaCalls = {}

SerialNext ==
    \/ Tick
    \/ initializeRedis
    \/ closeRedis
    \/ Quiet /\ SessionCalls
    \/ Quiet /\ \E sid \in SessionIds : UpdateActivityRead(sid)
    \/ Quiet /\ \E u \in Users : RevokeAllUserSessions(u)
    \/ SessionSteps

SerialSpec == InitDistinct /\ [][SerialNext]_vars

\* logins, and the requests made with the credentials a login returned
Next ==
    \/ Tick
    \/ initializeRedis
    \/ closeRedis
    \/ \E found \in directory \cup {Undefined}, pw \in BOOLEAN, c \in Clients : Login(found, pw, c)
    \/ \E sid \in SessionIds : RevokeSession(sid)
    \/ \E u \in Users : RevokeAllUserSessions(u)
    \/ \E u \in Users : DeleteUser(u)
    \/ RevokeAllScan
    \/ RevokeAllGet
    \/ RevokeAllDel
    \/ RevokeAllReturn

Spec == InitDistinct /\ [][Next]_vars

----
\* FeatureFlagService operations.  The setters have no try/catch: a store
\* that cannot be reached makes them reject.

\* what a setter does: the keyspace after it, or the rejection
FlagWrite(op, arg, store) ==
    /\ IF ~StoreAvailable
       THEN Done(op, arg, Unavailable) /\ UNCHANGED redis
       ELSE redis' = store /\ Done(op, arg, Ok(Undefined))
    /\ UNCHANGED <<now, config, proc, breakers, redisClient, storeUp, nextSid, issued, logins, uaCalls,
                   ra, hist, directory>>

\* enableGlobal / disableGlobal: set the global key, then invalidateCache
EnableGlobal(flagName) ==
    FlagWrite("enableGlobal", [flagName |-> flagName],
              invalidateCache(redisSet(redis, GlobalFlagKey(flagName), Str("true")), flagName, now))

DisableGlobal(flagName) ==
    FlagWrite("disableGlobal", [flagName |-> flagName],
              invalidateCache(redisSet(redis, GlobalFlagKey(flagName), Str("false")), flagName, now))

\* enableForUser / disableForUser / enableForEnvironment: set the key, no more
EnableForUser(flagName, userId) ==
    FlagWrite("enableForUser", [flagName |-> flagName, userId |-> userId],
              redisSet(redis, UserFlagKey(flagName, userId), Str("true")))

DisableForUser(flagName, userId) ==
    FlagWrite("disableForUser", [flagName |-> flagName, userId |-> userId],
              redisSet(redis, UserFlagKey(flagName, userId), Str("false")))

EnableForEnvironment(flagName, environment) ==
    FlagWrite("enableForEnvironment", [flagName |-> flagName, environment |-> environment],
              redisSet(redis, EnvFlagKey(flagName, environment), Str("true")))

IsEnabled(flagName, context) ==
    /\ redis' = isEnabled(flagName, context, now).redis
    /\ Done("isEnabled", [flagName |-> flagName, context |-> context],
            Ok(isEnabled(flagName, context, now).res))
    /\ UNCHANGED <<now, config, proc, breakers, redisClient, storeUp, nextSid, issued, logins, uaCalls,
                   ra, hist, directory>>

\* FeatureFlagService called in every order, the client lifecycle and the
\* clock around it
FlagNext ==
    \/ Tick
    \/ initializeRedis
    \/ closeRedis
    \/ \E f \in FlagNames : EnableGlobal(f)
    \/ \E f \in FlagNames : DisableGlobal(f)
    \/ \E f \in FlagNames, u \in FlagUsers : EnableForUser(f, u)
    \/ \E f \in FlagNames, u \in FlagUsers : DisableForUser(f, u)
    \/ \E f \in FlagNames, e \in FlagEnvironments : EnableForEnvironment(f, e)
    \/ \E f \in FlagNames, c \in Contexts : IsEnabled(f, c)

FlagSpec == InitDistinct /\ [][FlagNext]_vars

----
\* updateActivity with up to MaxOverlap calls suspended at their setEx

ActivityNext ==
    \/ Tick
    \/ initializeRedis
    \/ \E u \in Users, c \in Clients : CreateSession(u, c)
    \/ \E sid \in SessionIds : UpdateActivityStart(sid, MaxOverlap)
    \/ \E call \in uaCalls : UpdateActivityWrite(call)

ActivitySpec == InitDistinct /\ [][ActivityNext]_vars

----
\* every operation of SessionService, one call at a time, over a store that
\* fails and recovers

RegistryNext ==
    \/ Tick
    \/ initializeRedis
    \/ closeRedis
    \/ StoreFlip
    \/ Quiet /\ SessionCalls
    \/ Quiet /\ \E sid \in SessionIds : GetSession(sid)
    \/ Quiet /\ \E u \in Users : GetUserSessions(u)
    \/ Quiet /\ \E sid \in SessionIds : UpdateActivityRead(sid)
    \/ Quiet /\ \E u \in Users : RevokeAllUserSessions(u)
    \/ SessionSteps

RegistrySpec == InitDistinct /\ [][RegistryNext]_vars

----
\* The process: start(), the signal listeners, gracefulShutdown

\* a step of the process leaves the application's data alone
ProcessStep ==
    UNCHANGED <<now, config, redisClient, storeUp, redis, directory, nextSid, issued,
                logins, uaCalls, ra, last, hist, breakers>>

Running == proc.status = "running"

\* process.exit(code)
exit(p, code) == [p EXCEPT !.status = IF code = 0 THEN "exit0" ELSE "exit1"]

\* gracefulShutdown(signal): with a server, server.close(callback) stops the
\* listening socket and a forced shutdown is scheduled; without one, nothing
gracefulShutdown(p, t) ==
    IF p.server # "undefined"
    THEN [p EXCEPT !.server = IF @ = "listening" THEN "closing" ELSE @,
                   !.timer = IF @ = Never THEN t + FORCE_SHUTDOWN_TIMEOUT * TicksPerSec ELSE @]
    ELSE p

\* start() step 1: initializeConfig reads DATABASE_TYPE from the environment
InitializeConfig(databaseType) ==
    /\ Running /\ proc.phase = "new"
    /\ proc' = [proc EXCEPT !.phase = "configured", !.databaseType = databaseType]
    /\ ProcessStep

\* start() step 2: setupErrorHandlers registers the three signal listeners
SetupErrorHandlers ==
    /\ Running /\ proc.phase = "configured"
    /\ proc' = [proc EXCEPT !.phase = "handlers", !.handlers = TRUE]
    /\ ProcessStep

\* start() step 4: await initializeMongoDB or initializePostgreSQL; the
\* former registers its own SIGINT listener
InitializeDatabase ==
    /\ Running /\ proc.phase = "handlers"
    /\ proc' = [proc EXCEPT !.phase = "database", !.database = "connected",
                            !.mongoSigint = (proc.databaseType = "mongodb")]
    /\ ProcessStep

\* start() step 5: await initializeRedis
StartRedis ==
    /\ Running /\ proc.phase = "database"
    /\ initializeRedis

\* start() step 8: server = app.listen(port, host, ...)
Listen ==
    /\ Running /\ proc.phase = "database" /\ redisClient = "ready"
    /\ proc' = [proc EXCEPT !.phase = "listening", !.server = "listening"]
    /\ ProcessStep

\* the process receives a signal: without a listener the default action
\* ends it; with listeners, each one registered for the signal runs
Signal(sig) ==
    /\ Running /\ proc.signals < MaxSignals
    /\ LET received == [proc EXCEPT !.signals = @ + 1,
                                    !.signalAt = IF @ = Never THEN now ELSE @]
           shut == gracefulShutdown(received, now)
       IN  proc' = IF ~proc.handlers THEN [received EXCEPT !.status = "killed"]
                   ELSE IF sig = "SIGINT" /\ proc.mongoSigint
                        THEN [shut EXCEPT !.mongoClosing = TRUE]
                        ELSE shut
    /\ ProcessStep

\* the server has closed its last connection: the callback given to
\* server.close starts and calls the four closers
ServerClosed ==
    /\ Running /\ proc.server = "closing"
    /\ proc' = [proc EXCEPT !.server = "closed", !.cleanup = TRUE]
    /\ ProcessStep

\* closeRedis(), called by the callback
CloseRedis ==
    /\ Running /\ proc.cleanup
    /\ closeRedis

\* closeMongoDB() / closePostgreSQL(), called by the callback
CloseDatabase ==
    /\ Running /\ proc.cleanup /\ proc.database = "connected"
    /\ proc' = [proc EXCEPT !.database = "closed"]
    /\ ProcessStep

\* Promise.allSettled has settled: process.exit(0)
ExitGraceful ==
    /\ Running /\ proc.cleanup
    /\ redisClient # "ready" /\ proc.database # "connected"
    /\ proc' = exit(proc, 0)
    /\ ProcessStep

\* initializeMongoDB's SIGINT listener resumes after
\* mongoose.connection.close(): process.exit(0)
MongoSigintExit ==
    /\ Running /\ proc.mongoClosing
    /\ proc' = exit([proc EXCEPT !.database = "closed"], 0)
    /\ ProcessStep

\* the forced-shutdown timer fires: process.exit(1)
ForcedShutdown ==
    /\ Running /\ proc.timer # Never /\ now >= proc.timer
    /\ proc' = exit(proc, 1)
    /\ ProcessStep

\* time passes; a timer that is due fires before the clock moves on
ProcessTick ==
    /\ ~Running \/ proc.timer = Never \/ now < proc.timer
    /\ Tick

ShutdownNext ==
    \/ ProcessTick
    \/ \E d \in DatabaseTypes : InitializeConfig(d)
    \/ SetupErrorHandlers
    \/ InitializeDatabase
    \/ StartRedis
    \/ Listen
    \/ \E sig \in Signals : Signal(sig)
    \/ ServerClosed
    \/ CloseRedis
    \/ CloseDatabase
    \/ ExitGraceful
    \/ MongoSigintExit
    \/ ForcedShutdown

ShutdownSpec == InitDistinct /\ [][ShutdownNext]_vars

----
\* CircuitBreakerManager (src/unnamed/part_005) over opossum breakers

\* the names breakers are registered under
BreakerNames == {"db", "api"}

\* the functions handed to execute: each has an identity and either
\* resolves with its own value or rejects with its own error
Fns == {[id |-> "f", ok |-> TRUE], [id |-> "g", ok |-> TRUE], [id |-> "h", ok |-> FALSE]}

\* what fn resolves with, and what it rejects with
ValueOf(fn) == [from |-> fn.id]
ErrorOf(fn) == [kind |-> "Error", message |-> fn.id]

\* the fallback argument: absent, or a function with its own value
Fallbacks == {Undefined, "fallback"}
FallbackValue == [from |-> "fallback"]

\* the rejection of an open breaker
OpenError == [kind |-> "Error", message |-> "Breaker is open"]

\* options of createBreaker: errorThresholdPercentage (50) and resetTimeout
\* (30000 ms, scaled to seconds)
ERROR_THRESHOLD == 50
RESET_TIMEOUT == 1

\* new CircuitBreaker(fn, options): closed, nothing counted
NewBreaker(fn) == [fn |-> fn, state |-> "closed", fires |-> 0, failures |-> 0, openedAt |-> 0]

\* createBreaker(name, fn): the breaker registered under the name if there
\* is one, else a new breaker around fn
createBreaker(name, fn) ==
    IF name \in DOMAIN breakers THEN breakers[name] ELSE NewBreaker(fn)

\* an open breaker lets one trial call through once resetTimeout has passed
Rejects(b, t) == b.state = "open" /\ t < b.openedAt + RESET_TIMEOUT * TicksPerSec

\* breaker.fire(): the breaker afterwards and the settled promise.  An open
\* breaker rejects; otherwise the breaker's own function runs: success
\* closes a half-open breaker, failure opens the breaker when it was on
\* trial or when the error rate exceeds the threshold.
fire(b, t) ==
    LET fired == [b EXCEPT !.fires = @ + 1]
        failed == [fired EXCEPT !.failures = @ + 1]
    IN  IF Rejects(b, t) THEN [breaker |-> fired, res |-> OpenError]
        ELSE IF b.fn.ok
        THEN [breaker |-> [fired EXCEPT !.state = "closed"], res |-> Ok(ValueOf(b.fn))]
        ELSE [breaker |-> IF b.state = "open"
                             \/ failed.failures * 100 > ERROR_THRESHOLD * failed.fires
                          THEN [failed EXCEPT !.state = "open", !.openedAt = t]
                          ELSE failed,
              res |-> ErrorOf(b.fn)]

\* execute(name, fn, fallback): the registry afterwards and what the caller
\* gets: the result of fire, or on its rejection the fallback's value when a
\* fallback was given, else the error
execute(name, fn, fallback, t) ==
    LET out == fire(createBreaker(name, fn), t)
    IN  [breakers |-> [n \in DOMAIN breakers \cup {name} |->
                          IF n = name THEN out.breaker ELSE breakers[n]],
         res |-> IF out.res.kind = "ok" THEN out.res
                 ELSE IF fallback # Undefined THEN Ok(FallbackValue)
                 ELSE out.res]

\* a call of execute; `closed` records whether the breaker let the call through
Execute(name, fn, fallback) ==
    /\ createBreaker(name, fn).fires < MaxFires
    /\ breakers' = execute(name, fn, fallback, now).breakers
    /\ Done("execute",
            [name |-> name, fn |-> fn, fallback |-> fallback,
             closed |-> ~Rejects(createBreaker(name, fn), now)],
            execute(name, fn, fallback, now).res)
    /\ UNCHANGED <<now, config, redisClient, storeUp, redis, directory, nextSid, issued,
                   logins, uaCalls, ra, hist, proc>>

BreakerNext ==
    \/ Tick
    \/ \E name \in BreakerNames, fn \in Fns, fallback \in Fallbacks : Execute(name, fn, fallback)

BreakerSpec == InitDistinct /\ [][BreakerNext]_vars

----
\* Properties of TokenService (checked under TokenSpec)

\* the instant, in ticks, at which the second `exp` begins
ExpInstant(tok) == tok.exp * TicksPerSec

\* tok was produced by generateRefreshToken / by generateAccessToken
IsRefreshToken(tok) == Decodable(tok) /\ Claim(tok, "type") = "refresh"
IsAccessToken(tok) == Decodable(tok) /\ "email" \in DOMAIN tok

\* tok is a refresh token this configuration signed and the clock is before
\* its exp
ValidRefresh(tok) == IsRefreshToken(tok) /\ tok.sig = config.jwtRefreshSecret /\ now < ExpInstant(tok)

Rejected(res) == res.kind = "AuthenticationError"

\* the access tokens a client may present: those it kept and the one the
\* refresh made last returned
Presentable ==
    issued \cup (IF last.op = "refreshAccessToken" /\ last.res.kind = "ok"
                 THEN {last.res.value.accessToken} ELSE {})

\* C1 as stated: once revokeToken(t) has returned with the store available,
\* a refreshAccessToken(t) made at any later instant before t's exp fails
\* with AuthenticationError.
C1_Original ==
    \A tok \in hist.revoked : ValidRefresh(tok) => Rejected(refreshAccessToken(tok, now))

\* C1 amended: once revokeToken(t) has returned with the store available,
\* every refreshAccessToken(t) made before t's exp while the store can be read
\* fails with AuthenticationError (and so returns no access token).
C1_Amended ==
    \A tok \in hist.revoked :
        ValidRefresh(tok) /\ StoreAvailable => Rejected(refreshAccessToken(tok, now))

\* a revoked, still valid refresh token has just been refused
C1_Witness ==
    /\ last.op = "refreshAccessToken"
    /\ last.arg \in hist.revoked
    /\ ValidRefresh(last.arg)
    /\ StoreAvailable
    /\ Rejected(last.res)

\* the denylist entries of the store
DenylistKeys == {k \in DOMAIN redis : "revokedToken" \in DOMAIN k}

C7_Claim ==
    \A tok \in issued :
        IsRefreshToken(tok) =>
            /\ Rejected(authMiddleware(tok, now))
            /\ Rejected(verifyToken(tok, config.jwtAccessSecret, now))

\* C8: refreshAccessToken refuses every token without the type claim
\* 'refresh' (the access tokens of generateAccessToken and of an earlier
\* refresh), also while it is unexpired and signed with the refresh secret.
C8_AccessTokenNeverRefreshes ==
    \A tok \in Presentable :
        Decodable(tok) /\ ~IsRefreshToken(tok) => Rejected(refreshAccessToken(tok, now))

\* with equal secrets, an unexpired access token was handed to
\* refreshAccessToken and refused
C8_Witness ==
    /\ last.op = "refreshAccessToken"
    /\ IsAccessToken(last.arg)
    /\ config.jwtAccessSecret = config.jwtRefreshSecret
    /\ jwtVerifies(last.arg, config.jwtRefreshSecret, now)
    /\ Rejected(last.res)

\* C9: with two different secrets, no refresh token verifies under the
\* access secret, and no access token verifies under the refresh secret,
\* neither through verifyToken nor through refreshAccessToken.
C9_SecretIsolation ==
    config.jwtAccessSecret # config.jwtRefreshSecret =>
        \A tok \in issued :
            /\ IsRefreshToken(tok) => Rejected(verifyToken(tok, config.jwtAccessSecret, now))
            /\ IsAccessToken(tok) =>
                   /\ Rejected(verifyToken(tok, config.jwtRefreshSecret, now))
                   /\ Rejected(refreshAccessToken(tok, now))

\* an unexpired access token was verified against the other secret and
\* refused
C9_Witness ==
    /\ last.op = "verifyToken"
    /\ config.jwtAccessSecret # config.jwtRefreshSecret
    /\ IsAccessToken(last.arg.token)
    /\ now < ExpInstant(last.arg.token)
    /\ last.arg.secret = config.jwtRefreshSecret
    /\ Rejected(last.res)

\* the claims verifyToken returns are the inputs of generateTokenPair
RoundTrip(input, res) ==
    /\ res.kind = "ok"
    /\ Claim(res.value, "userId") = input.userId
    /\ Claim(res.value, "email") = input.email
    /\ Claim(res.value, "roles") = input.roles

\* C10 as stated: the access token just generated verifies, with claims
\* equal to the inputs, as long as the clock has not passed exp, and is
\* refused at every instant after iat + the access TTL.
C10_Original ==
    last.op = "generateTokenPair" =>
        LET tok == last.res.value.accessToken
        IN  /\ now <= ExpInstant(tok) =>
                   RoundTrip(last.arg, verifyToken(tok, config.jwtAccessSecret, now))
            /\ now > (tok.iat + timespan(config.jwtAccessExpiry)) * TicksPerSec =>
                   Rejected(verifyToken(tok, config.jwtAccessSecret, now))

\* C10 amended: the access token verifies, with claims equal to the inputs,
\* at every instant before exp = iat + the access TTL, and is refused at exp
\* and at every instant after it.
C10_Amended ==
    last.op = "generateTokenPair" =>
        LET tok == last.res.value.accessToken
        IN  /\ tok.exp = tok.iat + timespan(config.jwtAccessExpiry)
            /\ now < ExpInstant(tok) =>
                   /\ RoundTrip(last.arg, verifyToken(tok, config.jwtAccessSecret, now))
                   /\ RoundTrip(last.arg, verifyToken(tok, Undefined, now))
            /\ now >= ExpInstant(tok) =>
                   Rejected(verifyToken(tok, config.jwtAccessSecret, now))

\* the clock stands at the exp of the access token generated last
C10_Witness ==
    /\ last.op = "generateTokenPair"
    /\ now = ExpInstant(last.res.value.accessToken)

\* the result of the call made last carries an access token and expiresIn
ReturnsExpiresIn ==
    /\ last.op \in {"generateTokenPair", "refreshAccessToken"}
    /\ last.res.kind = "ok"

\* C11: the expiresIn that generateTokenPair and refreshAccessToken return is
\* (exp - iat) * 1000 of the access token of the same result, and it is
\* 900000 when JWT_ACCESS_EXPIRY is the default '15m'.
C11_ExpiresInIsTokenLifetime ==
    ReturnsExpiresIn =>
        LET tok == last.res.value.accessToken
        IN  /\ last.res.value.expiresIn = (tok.exp - tok.iat) * 1000
            /\ config.jwtAccessExpiry = DefaultAccessExpiry
                   => last.res.value.expiresIn = 900000

\* a refresh under an expiry that is no whole number of seconds returned the
\* lifetime of the token, which is shorter than the configured expiry
C11_Witness ==
    /\ ReturnsExpiresIn
    /\ last.op = "refreshAccessToken"
    /\ config.jwtAccessExpiry.unit = "ms"
    /\ last.res.value.expiresIn < ms(config.jwtAccessExpiry)

\* no live denylist entry blocks tok
NotRevoked(tok) == redisGet(redis, TokenKey(tok), now) = Null

C16_FailOpen ==
    /\ last.op = "isTokenRevoked" => last.res.kind = "ok" /\ last.res.value \in BOOLEAN
    /\ \A tok \in Inputs :
           /\ ~StoreAvailable => ~isTokenRevoked(tok, now)
           /\ isTokenRevoked(tok, now) =>
                  /\ TokenKey(tok) \in DOMAIN redis
                  /\ redis[TokenKey(tok)].val = Str("1")
           /\ (~StoreAvailable /\ ValidRefresh(tok)) => refreshAccessToken(tok, now).kind = "ok"

\* a revoked refresh token was exchanged for an access token while the store
\* could not be read
C16_Witness ==
    /\ last.op = "refreshAccessToken"
    /\ last.arg \in hist.revoked
    /\ ValidRefresh(last.arg)
    /\ TokenKey(last.arg) \in DOMAIN redis
    /\ ~StoreAvailable
    /\ last.res.kind = "ok"

\* C17: revokeToken never fails its caller.  Whatever the token (undecodable,
\* without exp, expired, valid) and whatever the state of the store (no
\* client, write rejected), the call returns normally; and when the store
\* cannot take the write, the denylist is left as it was.
C17_RevokeNeverFails ==
    /\ last.op = "revokeToken" => last.res = Ok(Undefined)
    /\ \A tok \in Inputs :
           /\ revokeTokenResult(tok, now) = Ok(Undefined)
           /\ ~StoreAvailable => revokeToken(tok, now) = redis

\* revokeToken has returned normally for an unexpired refresh token whose
\* write the store rejected: the token is not on the denylist
C17_Witness ==
    /\ last.op = "revokeToken"
    /\ last.res = Ok(Undefined)
    /\ ValidRefresh(last.arg)
    /\ HasClient
    /\ ~storeUp
    /\ TokenKey(last.arg) \notin DOMAIN redis

\* tok is validly signed for `secret` and its exp has come
Expired(tok, secret) ==
    /\ Decodable(tok)
    /\ tok.sig = secret
    /\ "exp" \in DOMAIN tok
    /\ now >= ExpInstant(tok)

\* C18: a failing verifyToken or refreshAccessToken raises AuthenticationError
\* and nothing else, whatever the cause, and each of the two raises one and
\* the same error (kind and message) for an expired token as for a forged or
\* malformed one.
C18_OneErrorKind ==
    /\ last.op \in {"verifyToken", "refreshAccessToken"} =>
           last.res.kind \in {"ok", "AuthenticationError"}
    /\ \A tok \in Inputs :
           /\ \A secret \in Secrets \cup {Undefined} :
                  verifyToken(tok, secret, now).kind # "ok" =>
                      verifyToken(tok, secret, now) = AuthenticationError("Invalid or expired token")
           /\ refreshAccessToken(tok, now).kind # "ok" =>
                  refreshAccessToken(tok, now) = AuthenticationError("Failed to refresh token")

\* an expired token this configuration signed has just been refused with
\* the very error the malformed token gets
C18_Witness ==
    /\ last.op = "refreshAccessToken"
    /\ IsRefreshToken(last.arg)
    /\ Expired(last.arg, config.jwtRefreshSecret)
    /\ Rejected(last.res)
    /\ last.res = refreshAccessToken(Garbage, now)
    /\ \E tok \in issued : Expired(tok, config.jwtAccessSecret)
           /\ verifyToken(tok, Undefined, now) = verifyToken(Garbage, Undefined, now)

\* the claims of tok name the admin role
HasAdminRole(tok) == "roles" \in DOMAIN tok /\ includes(tok.roles, ADMIN)

\* C20 as stated: for every access token that passes authMiddleware, issued
\* by generateTokenPair (login) or by refreshAccessToken, each endpoint with a
\* target id allows the request iff the caller is admin or is the target,
\* listUsers allows it iff the caller is admin, and a request that is not
\* allowed ends with AuthorizationError and nothing else.
C20_Claim ==
    \A tok \in Presentable : \A target \in Users : \A endpoint \in Endpoints :
        (~IsRefreshToken(tok) /\ authMiddleware(tok, now).kind = "ok") =>
            LET res == UserController(endpoint, authMiddleware(tok, now).value, target)
                may == IF endpoint = "listUsers" THEN HasAdminRole(tok)
                       ELSE HasAdminRole(tok) \/ tok.userId = target
            IN  /\ res.kind = "ok" <=> may
                /\ res.kind # "ok" => res.kind = "AuthorizationError"

----
\* Properties of the session registry and of the credentials of a login

\* C2 as stated (checked under Spec): once a session has been revoked, the
\* credentials of the login that created it are refused: authMiddleware
\* rejects the access token and refreshAccessToken rejects the refresh token.
C2_Claim ==
    \A l \in logins :
        l.sessionId \in hist.revokedSessions =>
            /\ Rejected(authMiddleware(l.tokens.accessToken, now))
            /\ Rejected(refreshAccessToken(l.tokens.refreshToken, now))

\* C3 as stated (checked under Spec): after deleteUser(u) has returned, u
\* has no session left and every refresh token issued to u before is refused
\* by refreshAccessToken.
C3_Claim ==
    /\ (last.op = "deleteUser" /\ last.res.kind = "ok" /\ StoreAvailable)
           => getUserSessions(last.arg, now) = {}
    /\ \A tok \in hist.deletedRefresh : Rejected(refreshAccessToken(tok, now))

\* C5 as stated (checked under SessionSpec): a session that was deleted or
\* whose TTL lapsed is absent in every later state, whatever calls
\* interleave.
C5_Claim ==
    \A sid \in hist.deadSessions : getSession(sid, now) = Null

\* the subject of the revokeAllUserSessions call that takes this step
RASubject == IF ra = Idle THEN ra'.userId ELSE ra.userId

\* C6 (checked under SerialSpec, where no other call runs while one is
\* suspended): from its scan to its return, no step of
\* revokeAllUserSessions(A) changes or removes the unexpired session of
\* another subject, and when the call returns no session of A is stored.
C6_RevokeAllFrame ==
    [][ (ra # Idle \/ ra' # Idle) =>
          /\ \A k \in DOMAIN redis :
                 (IsSessionKey(k) /\ now' < redis[k].expireAt
                                 /\ JSONparse(redis[k].val).userId # RASubject)
                    => (k \in DOMAIN redis' /\ redis'[k] = redis[k])
          /\ (ra # Idle /\ ra' = Idle /\ last'.res.kind = "ok")
                 => userSessionsIn(redis', ra.userId, now') = {} ]_vars

\* a call that deleted a session of its subject is about to return while a
\* session of another subject is stored
C6_Witness ==
    /\ ra.pc = "get"
    /\ ra.keys = {}
    /\ ra.deleted # {}
    /\ \E k \in DOMAIN redis :
           IsSessionKey(k) /\ now < redis[k].expireAt /\ JSONparse(redis[k].val).userId # ra.userId

----
\* Properties of SessionService with one call at a time (SerialSpec)

\* the stored record of a session key that is live in the store at instant t
StoredSession(store, sid, t) == JSONparse(redisGet(store, SessionKey(sid), t))
LiveSession(store, sid, t) == redisGet(store, SessionKey(sid), t) # Null

\* this step is createSession storing session nextSid'
CreateStep == nextSid' = nextSid + 1

\* this step is the setEx of the suspended updateActivity call being executed
\* on a session that is still stored
UpdateStep(call) ==
    /\ call \in uaCalls
    /\ call \notin uaCalls'
    /\ last'.res.kind = "ok"
    /\ LiveSession(redis, call.sid, now)

FullWindow(store, sid, t) == store[SessionKey(sid)].expireAt = t + SESSION_TTL * TicksPerSec

\* C13 as stated: getSession right after createSession returns lastActivityAt
\* equal to createdAt; every updateActivity on a stored session leaves a
\* lastActivityAt strictly greater than the one stored before it and resets
\* the TTL of the key to the full window.
C13_Original ==
    [][ /\ CreateStep =>
              StoredSession(redis', nextSid', now').lastActivityAt
                  = StoredSession(redis', nextSid', now').createdAt
        /\ \A call \in uaCalls : UpdateStep(call) =>
              /\ StoredSession(redis', call.sid, now').lastActivityAt.iso
                     > StoredSession(redis, call.sid, now).lastActivityAt.iso
              /\ FullWindow(redis', call.sid, now') ]_vars

\* C13 amended: getSession right after createSession returns lastActivityAt
\* equal to createdAt; updateActivity stamps the record with the clock it
\* reads after its getSession, so the lastActivityAt stored after the call is
\* that instant and is never less than the value stored before (equal when
\* no clock tick separates the two), and the TTL of the key is reset to the
\* full window.
C13_Amended ==
    [][ /\ CreateStep =>
              StoredSession(redis', nextSid', now').lastActivityAt
                  = StoredSession(redis', nextSid', now').createdAt
        /\ \A call \in uaCalls' \ uaCalls : call.session.lastActivityAt = Date(now)
        /\ \A call \in uaCalls : UpdateStep(call) =>
              /\ StoredSession(redis', call.sid, now').lastActivityAt.iso
                     = call.session.lastActivityAt.date
              /\ StoredSession(redis', call.sid, now').lastActivityAt.iso
                     >= StoredSession(redis, call.sid, now).lastActivityAt.iso
              /\ FullWindow(redis', call.sid, now') ]_vars

\* updateActivity has just returned and the session it touched shows a
\* lastActivityAt later than its createdAt and a key that outlives expiresAt
C13_Witness ==
    /\ last.op = "updateActivity"
    /\ last.res.kind = "ok"
    /\ LiveSession(redis, last.arg, now)
    /\ StoredSession(redis, last.arg, now).lastActivityAt.iso
           > StoredSession(redis, last.arg, now).createdAt.iso
    /\ redis[SessionKey(last.arg)].expireAt = now + SESSION_TTL * TicksPerSec

\* the session keys the store holds at this instant
LiveSessionKeys == redisSessionKeys(redis, now)

\* C14 as stated: in every reachable state no two stored sessions share an
\* id, and the instant at which the store expires a session key is the
\* expiresAt of the record stored under it.
C14_Claim ==
    /\ \A k1, k2 \in LiveSessionKeys :
           JSONparse(redis[k1].val).id = JSONparse(redis[k2].val).id => k1 = k2
    /\ \A k \in LiveSessionKeys :
           redis[k].expireAt = JSONparse(redis[k].val).expiresAt.iso

\* C15: revokeSession is idempotent.  When revokeSession(id) has returned
\* without error and is called again while the store serves commands, the
\* second call returns without error too and leaves every stored key as it
\* is, and getSession(id) is absent after the first call and after the second.
C15_RevokeSessionIdempotent ==
    (last.op = "revokeSession" /\ last.res.kind = "ok" /\ StoreAvailable) =>
        LET second == revokeSession(redis, last.arg)
        IN  /\ getSession(last.arg, now) = Null
            /\ second.res.kind = "ok"
            /\ second.redis = redis
            /\ ~LiveSession(second.redis, last.arg, now)

\* revokeSession has just removed a session that was stored, another session
\* is still stored, and the store is ready for the second call
C15_Witness ==
    /\ last.op = "revokeSession"
    /\ last.res.kind = "ok"
    /\ StoreAvailable
    /\ last.arg \in hist.deadSessions
    /\ LiveSessionKeys # {}

----
\* Properties of UserService.login (checked under Spec)

\* this step is a login that succeeded / a login refused for its credentials
LoginSucceeds == logins' # logins
LoginRefused ==
    /\ last'.op = "login"
    /\ last'.res.kind = "AuthenticationError"
    /\ ~(last.op = "login" /\ last.res.kind = "AuthenticationError" /\ last.arg = last'.arg)

\* C19: a successful login stores exactly one new session, of the subject,
\* and returns one token pair of the subject with the id of that session;
\* every session stored before is left as it was.  A login refused for an
\* unknown email or a wrong password stores nothing and issues no token.
C19_LoginFrame ==
    [][ /\ LoginSucceeds =>
              /\ \E l \in logins' \ logins :
                     /\ logins' = logins \cup {l}
                     /\ DOMAIN redis' = DOMAIN redis \cup {SessionKey(l.sessionId)}
                     /\ SessionKey(l.sessionId) \notin DOMAIN redis
                     /\ StoredSession(redis', l.sessionId, now').userId = l.userId
                     /\ last'.res = Ok([tokens |-> l.tokens, sessionId |-> l.sessionId])
                     /\ l.tokens.accessToken.userId = l.userId
                     /\ l.tokens.refreshToken.userId = l.userId
                     /\ issued' = issued \cup {l.tokens.accessToken, l.tokens.refreshToken}
              /\ \A k \in DOMAIN redis : redis'[k] = redis[k]
        /\ LoginRefused =>
              /\ redis' = redis
              /\ issued' = issued
              /\ logins' = logins
              /\ nextSid' = nextSid ]_vars

\* the login that has just succeeded gave its subject a second session
\* while the first one is still stored
C19_Witness ==
    /\ last.op = "login"
    /\ last.res.kind = "ok"
    /\ \E l1, l2 \in logins :
           /\ l1.sessionId # l2.sessionId
           /\ l1.userId = l2.userId
           /\ l2.sessionId = last.res.value.sessionId
           /\ LiveSession(redis, l1.sessionId, now)
           /\ LiveSession(redis, l2.sessionId, now)

----
\* Properties of FeatureFlagService (checked under FlagSpec)

\* C21 as stated: once disableGlobal(flag) has returned, isEnabled(flag, ctx)
\* is false for every context, whatever enable operations and isEnabled
\* calls came before.
C21_Claim ==
    (last.op = "disableGlobal" /\ last.res.kind = "ok") =>
        \A c \in Contexts : ~isEnabled(last.arg.flagName, c, now).res

\* the value stored under a flag key is 'true'
IsTrue(key) == redisGet(redis, key, now) = Str("true")
IsSet(key) == redisGet(redis, key, now) # Null

\* the order the claim gives: global, then user, then environment, then false
Resolved(flagName, context) ==
    IF IsSet(GlobalFlagKey(flagName)) THEN IsTrue(GlobalFlagKey(flagName))
    ELSE IF HasUserId(context) /\ IsSet(UserFlagKey(flagName, context.userId))
    THEN IsTrue(UserFlagKey(flagName, context.userId))
    ELSE IF HasEnvironment(context) /\ IsSet(EnvFlagKey(flagName, context.environment))
    THEN IsTrue(EnvFlagKey(flagName, context.environment))
    ELSE FALSE

C29_Claim ==
    (last.op \in {"enableForUser", "disableForUser"} /\ last.res.kind = "ok"
        /\ StoreAvailable /\ ~IsSet(GlobalFlagKey(last.arg.flagName))) =>
        isEnabled(last.arg.flagName, [userId |-> last.arg.userId], now).res
            = (last.op = "enableForUser")

----
\* Properties of the process

\* C22: graceful shutdown keeps its order: the connections to Redis and to
\* the database are closed only once the server has stopped accepting
\* requests, and the process never exits with status 0 while the Redis
\* connection is still open
C22_Claim ==
    /\ (redisClient = "closed" \/ proc.database = "closed") => proc.server # "listening"
    /\ proc.status = "exit0" => redisClient # "ready"

\* C23: once a signal was received, in any state of the process, the process
\* has exited by the time the forced shutdown is due: it never still runs
\* later than FORCE_SHUTDOWN_TIMEOUT after the signal
C23_Claim ==
    (proc.signalAt # Never /\ now > proc.signalAt + FORCE_SHUTDOWN_TIMEOUT * TicksPerSec) =>
        ~Running

----
\* Properties settled on the token and session operations (continued)

\* the token decodes with an exp claim that lies ahead of the clock
Revocable(tok) == Decodable(tok) /\ "exp" \in DOMAIN tok /\ tok.exp - Sec(now) > 0

\* C24: revokeToken(t) writes at most one key, the denylist key of t, with
\* the value '1' and a TTL of exp - now seconds, and only when t decodes with
\* an exp claim ahead of the clock; otherwise the store is left as it is.
\* Every other key keeps its value and expiry, and what the call leaves under
\* the key of t does not depend on an entry an earlier call left there.
C24_RevokeFrame ==
    \A tok \in Inputs :
        LET after == revokeToken(tok, now)
            key == TokenKey(tok)
        IN  /\ DOMAIN after = DOMAIN redis \cup (IF after = redis THEN {} ELSE {key})
            /\ \A k \in DOMAIN redis \ {key} : after[k] = redis[k]
            /\ after # redis => Revocable(tok)
            /\ (Revocable(tok) /\ StoreAvailable) =>
                   after[key] = [val |-> Str("1"),
                                 expireAt |-> now + (tok.exp - Sec(now)) * TicksPerSec]
            /\ ~(Revocable(tok) /\ StoreAvailable) => after = redis

\* a token was revoked while the denylist held the entry of another token,
\* and a second call for the same token would rewrite the entry in place
C24_Witness ==
    /\ last.op = "revokeToken"
    /\ Revocable(last.arg) /\ StoreAvailable
    /\ TokenKey(last.arg) \in DOMAIN redis
    /\ \E k \in DOMAIN redis : k # TokenKey(last.arg)
    /\ revokeToken(last.arg, now) # redis

\* session sid is stored, unexpired, and belongs to userId
LiveSessionOf(store, sid, userId, t) ==
    LiveSession(store, sid, t) /\ StoredSession(store, sid, t).userId = userId

\* C25 (checked under SessionSpec, where other calls run between the awaits
\* of the call): revokeAllUserSessions(A) deletes only sessions of A, and
\* when it returns, every session of A that existed at its scan is absent
\* unless an updateActivity wrote it in the meantime.
C25_ScanThenDelete ==
    [][ /\ (ra.pc = "del" /\ ra'.pc = "get") =>
               \A k \in DOMAIN redis \ DOMAIN redis' :
                   IsSessionKey(k) => JSONparse(redis[k].val).userId = ra.userId
        /\ (ra.pc = "get" /\ ra' = Idle /\ last'.res.kind = "ok") =>
               \A sid \in 1..ra.drawn :
                   LiveSessionOf(redis', sid, ra.userId, now') => sid \in ra.rewritten
      ]_vars

\* the call has deleted a session of its subject and is about to return,
\* while a session of the same subject created after the scan is stored
C25_Witness ==
    /\ ra.pc = "get"
    /\ ra.keys = {}
    /\ ra.deleted # {}
    /\ StoreAvailable
    /\ \E sid \in (ra.drawn + 1)..nextSid : LiveSessionOf(redis, sid, ra.userId, now)

\* C26 (checked under ActivitySpec, where updateActivity calls overlap): as
\* long as a session stays stored, every field but lastActivityAt keeps the
\* value createSession wrote; a new lastActivityAt is the timestamp of the
\* updateActivity call whose write has just landed; and it is earlier than
\* the value it replaces only when that call overlapped another call on the
\* same session.
C26_OnlyLastActivity ==
    [][ \A sid \in SessionIds :
          (LiveSession(redis, sid, now) /\ LiveSession(redis', sid, now')) =>
              LET before == StoredSession(redis, sid, now)
                  after == StoredSession(redis', sid, now')
                  landed == {c \in uaCalls \ uaCalls' : c.sid = sid}
              IN  /\ DOMAIN after = DOMAIN before
                  /\ \A f \in DOMAIN before \ {"lastActivityAt"} : after[f] = before[f]
                  /\ after.lastActivityAt # before.lastActivityAt =>
                         \E c \in landed : after.lastActivityAt.iso = c.session.lastActivityAt.date
                  /\ after.lastActivityAt.iso < before.lastActivityAt.iso =>
                         \E c \in landed : c.overlapped
      ]_vars

\* an updateActivity call is suspended with a timestamp earlier than the
\* lastActivityAt another call has stored since: its write will move the
\* stored value backward
C26_Witness ==
    \E c \in uaCalls :
        /\ c.overlapped
        /\ StoreAvailable
        /\ LiveSession(redis, c.sid, now)
        /\ c.session.lastActivityAt.date < StoredSession(redis, c.sid, now).lastActivityAt.iso
        /\ StoredSession(redis, c.sid, now).createdAt.iso
               < StoredSession(redis, c.sid, now).lastActivityAt.iso

SessionOps == {"createSession", "getSession", "updateActivity", "revokeSession",
               "revokeAllUserSessions", "getUserSessions"}

\* the step that ends revokeAllUserSessions after its last key: it sends no
\* command to the store
ReturnStep == ra.pc = "get" /\ ra.keys = {}

\* a step of RegistrySpec that ends a call of SessionService: the clock and
\* the store's condition stay, and no call is left suspended or newly suspended
Completes ==
    /\ now' = now /\ redisClient' = redisClient /\ storeUp' = storeUp
    /\ ra' = Idle
    /\ uaCalls' \subseteq uaCalls

\* what a step is seen to change; of `last`, the operation and the kind of
\* its result
Observed == <<now, redisClient, storeUp, redis, nextSid, uaCalls, ra, last.op, last.res.kind>>

\* C27 (checked under RegistrySpec): a missing session is a normal result
\* and a store failure is an error.  getSession of an absent id returns
\* null; updateActivity of an absent id returns without a write; a call of
\* SessionService fails only when the store could not serve its command, the
\* error is the store's (never an AuthenticationError), and a command the
\* store cannot serve always ends its call with that error and without a
\* write.
C27_MissingIsNormal ==
    [][ /\ Completes =>
               /\ last'.op \in SessionOps
               /\ last'.res.kind # "ok" => (~StoreAvailable /\ last'.res = Unavailable)
               /\ (~StoreAvailable /\ ~ReturnStep) => last'.res.kind # "ok"
               /\ (last'.op = "getSession" /\ StoreAvailable
                      /\ redisGet(redis, SessionKey(last'.arg), now) = Null)
                    => last'.res = Ok(Null)
               /\ (last'.op = "updateActivity" /\ StoreAvailable
                      /\ redisGet(redis, SessionKey(last'.arg), now) = Null /\ Quiet)
                    => (last'.res = Ok(Undefined) /\ redis' = redis /\ uaCalls' = uaCalls)
        /\ (~StoreAvailable /\ ~ReturnStep /\ (ra' # ra \/ uaCalls' # uaCalls)) =>
               /\ last'.op \in SessionOps
               /\ last'.res = Unavailable
               /\ redis' = redis
               /\ ra' = Idle
      ]_Observed

\* updateActivity of a stored session has failed with the error of the
\* store, and the session is stored as before
C27_Witness ==
    /\ last.op = "updateActivity"
    /\ last.res = StoreError
    /\ HasClient /\ ~storeUp
    /\ SessionKey(last.arg) \in DOMAIN redis

----
\* Properties of CircuitBreakerManager

\* C30: execute(name, fn, fallback) runs the fn of that call: it returns
\* fn's value when fn succeeds and the breaker lets the call through, the
\* fallback's value when the call fails or is rejected and a fallback was
\* given, and the error when none was given; for every call, also one that
\* passes another fn under a registered name.
C30_Claim ==
    last.op = "execute" =>
        LET fn == last.arg.fn
            through == last.arg.closed
        IN  /\ (through /\ fn.ok) => last.res = Ok(ValueOf(fn))
            /\ (~(through /\ fn.ok) /\ last.arg.fallback # Undefined) =>
                   last.res = Ok(FallbackValue)
            /\ (~(through /\ fn.ok) /\ last.arg.fallback = Undefined) =>
                   last.res \in {ErrorOf(fn), OpenError}
====
